---- MODULE Spec2Model ----
(***************************************************************************)
(* Model of the tock pomodoro timer (src/src/main.rs): the foreground       *)
(* commands start / break / status / stop, the detached timer daemon        *)
(* (run_daemon), the state store (read_state / write_state / clear_state),  *)
(* process control (pid_alive / send_sigterm) and the readiness pipe.       *)
(*                                                                         *)
(* Every system call that touches shared state (a file, a process, the      *)
(* pipe) is one step, so the interleavings of a foreground command with     *)
(* the daemons are the ones the operating system allows.  kill(2) only      *)
(* queues a signal: the target dies at a later DeliverSigterm step, or      *)
(* never (SIGTERM ignored by inheritance).                                  *)
(***************************************************************************)
EXTENDS Integers, Sequences, FiniteSets, TLC

(* ------------------------------ bounds --------------------------------- *)
\* number of daemons that can be spawned in one behaviour (pids 1..MaxSpawns)
MaxSpawns == 2
\* number of clock ticks (of TickSecs seconds each) in one behaviour
MaxTicks == 3
\* number of clock ticks in one behaviour of an undisturbed cycle (SpecCycle)
MaxCycleTicks == 7

(* ------------------------- program constants --------------------------- *)
DEFAULT_WORK_MINUTES == 25
DEFAULT_BREAK_MINUTES == 5
MAX_MINUTES == 1440
MAX_SETS == 100
\* seconds per minute, the factor of saturating_mul(60)
SecsPerMinute == 60

(* --------------------------- environment ------------------------------- *)
\* a pid found in a leftover record whose process is gone: kill gives ESRCH
StalePid == 8
\* a pid found in a leftover record that now belongs to a process of another
\* user: kill gives EPERM
ForeignPid == 9

Pids == 1..MaxSpawns
Paths == {"primary", "legacy"}
TickSecs == SecsPerMinute
MaxNow == MaxTicks * TickSecs

\* Option<T> is a sequence of length at most one
None == <<>>
Some(x) == <<x>>
IsSome(o) == Len(o) = 1
Unwrap(o) == o[1]

(* ------------------------------ records -------------------------------- *)
Cycle(set, sets, wm, bm) ==
  [set |-> set, sets |-> sets, work_minutes |-> wm, break_minutes |-> bm]

State(pid, mode, start_ts, end_ts, minutes, cycle) ==
  [pid |-> pid, mode |-> mode, start_ts |-> start_ts, end_ts |-> end_ts,
   minutes |-> minutes, cycle |-> cycle]

\* the contents of a file: absent, arbitrary non-conforming bytes, a record
\* that is not completely written (truncated, or two writes mixed), or a
\* complete JSON document
NoFile == [kind |-> "absent", doc |-> <<>>]
Garbage == [kind |-> "garbage", doc |-> <<>>]
\* a file just created or truncated by open(O_CREAT | O_TRUNC)
Empty == [kind |-> "empty", doc |-> <<>>]
\* the bytes of one record written over the longer bytes of another
Partial == [kind |-> "partial", doc |-> <<>>]
Json(doc) == [kind |-> "json", doc |-> <<doc>>]

\* serde's rename_all = "lowercase" for Mode
ModeToJson(mode) == IF mode = "Work" THEN "work" ELSE "break"
ModeFromJson(s) == IF s = "work" THEN "Work" ELSE "Break"

\* serde_json::to_vec(state): cycle None is written as null (no skip attribute)
to_vec(st) ==
  [pid |-> st.pid, mode |-> ModeToJson(st.mode), start_ts |-> st.start_ts,
   end_ts |-> st.end_ts, minutes |-> st.minutes,
   cycle |-> IF IsSome(st.cycle) THEN Some(Unwrap(st.cycle)) ELSE None]

\* from_str that drops the cycle
from_str_NoCycle(c) ==
  IF c.kind = "json"
  THEN LET d == c.doc[1]
       IN Some(State(d.pid, ModeFromJson(d.mode), d.start_ts, d.end_ts,
                     d.minutes, None))
  ELSE None

\* serde_json::from_str::<State>(contents): Some(state) or None on a parse error
from_str(c) ==
  IF c.kind = "json"
  THEN LET d == c.doc[1]
       IN Some(State(d.pid, ModeFromJson(d.mode), d.start_ts, d.end_ts,
                     d.minutes, d.cycle))
  ELSE None

(* --------------------------- pure functions ---------------------------- *)
validate_sets(sets) == sets # 0 /\ sets <= MAX_SETS

\* validate_minutes without the upper limit
validate_minutes_NoMax(minutes) == minutes # 0

validate_minutes(minutes) == minutes # 0 /\ minutes <= MAX_MINUTES

\* parse_cycle on the daemon's arguments: <<"ok", Option<Cycle>>> or <<"err", None>>
parse_cycle(sets, set, wm, bm) ==
  IF ~IsSome(sets) /\ ~IsSome(set) /\ ~IsSome(wm) /\ ~IsSome(bm)
  THEN <<"ok", None>>
  ELSE IF ~IsSome(sets) \/ ~IsSome(set) \/ ~IsSome(wm) \/ ~IsSome(bm)
  THEN <<"err", None>>
  ELSE IF ~validate_sets(Unwrap(sets)) THEN <<"err", None>>
  ELSE IF Unwrap(sets) <= 1 THEN <<"ok", None>>
  ELSE IF Unwrap(set) = 0 \/ Unwrap(set) > Unwrap(sets) THEN <<"err", None>>
  ELSE IF ~validate_minutes(Unwrap(wm)) \/ ~validate_minutes(Unwrap(bm))
  THEN <<"err", None>>
  ELSE <<"ok", Some(Cycle(Unwrap(set), Unwrap(sets), Unwrap(wm), Unwrap(bm)))>>

\* start_ts.checked_add((minutes as i64).saturating_mul(60))
deadline(start_ts, minutes) == start_ts + minutes * SecsPerMinute

\* state_matches that does not compare the pid
state_matches_NoPid(st, pid, mode, start_ts, end_ts, minutes) ==
  /\ st.mode = mode
  /\ st.start_ts = start_ts
  /\ st.end_ts = end_ts
  /\ st.minutes = minutes

\* the comparison of state_matches on a record that was read
state_matches(st, pid, mode, start_ts, end_ts, minutes) ==
  /\ st.pid = pid
  /\ st.mode = mode
  /\ st.start_ts = start_ts
  /\ st.end_ts = end_ts
  /\ st.minutes = minutes

(* ------------------------------- state --------------------------------- *)
VARIABLES
  now,      \* the system clock, Unix seconds
  file,     \* file[path]: contents of the state file at each location
  tmp,      \* contents of state.json.tmp beside the primary state file
  sigpend,  \* pids with a SIGTERM queued and not yet delivered
  pipeW,    \* daemons whose readiness pipe still has its write end open
  \* foreground command (at most one at a time)
  fpc,      \* position in the command
  fcmd,     \* "none", "start", "stop" or "status"
  farg,     \* start_session's arguments [mode, minutes, cycle]
  fpath,    \* the location being processed
  fst,      \* Option<State>: the record parsed by the last read_state
  ffd,      \* where the inode behind write_state's open descriptor is linked
  stopped,  \* stop's flag
  fsig,     \* this command's SIGTERM reached a live process
  fhealed,  \* this command's read_state met contents that do not parse
  fprev,    \* name of the last finished command
  fin,      \* the command line of the running command
  fpipe,    \* the readiness pipe's descriptors in the command: "none",
            \* "open" or "closed"
  child,    \* pid of the daemon spawned by this start_session (0: none)
  fnew,     \* Option<State>: the record start_session writes
  fexit,    \* exit status of the command that is returning (-1: none)
  nspawned, \* number of daemons spawned so far
  \* daemons, by pid
  dpc,      \* position in run_daemon
  dcur,     \* current_mode, current_start_ts, current_end_ts, current_minutes
  dcycle,   \* Option<Cycle>: the daemon's cycle
  dnext,    \* Option<State>: next_state being persisted
  dfd,      \* where the inode behind the daemon's open descriptor is linked
  dexit,    \* how the daemon ended
  \* history
  dlog,     \* dlog[pid]: persists, clears and notifications of the daemon's run
  intr,     \* daemons whose run a later stop or start has interrupted
  written,  \* Option<State>: the record of the last write_state that
            \* returned Ok, while no later write or clear touched the path
  wfailed   \* daemons whose start could not write their record

fvars == <<fpc, fcmd, farg, fpath, fst, ffd, stopped, fsig, fhealed, fprev, fin,
           fpipe, child, fnew, fexit, nspawned>>
dvars == <<dpc, dcur, dcycle, dnext, dfd, dexit>>
hvars == <<dlog, intr, written, wfailed>>
vars == <<now, file, tmp, sigpend, pipeW, fvars, dvars, hvars>>

(* --------------------------- the file system --------------------------- *)
\* where an open descriptor's inode is linked after remove_file(primary)
RelinkOnRemove(loc) == IF loc = "primary" THEN "unlinked" ELSE loc

\* ... and after rename(tmp, primary)
RelinkOnRename(loc) ==
  IF loc = "tmp" THEN "primary" ELSE IF loc = "primary" THEN "unlinked" ELSE loc

\* the contents a write of doc at offset 0 can leave in a file holding c
WriteOutcomes(c, doc) ==
  IF c.kind = "empty" \/ c = Json(doc) THEN {Json(doc)} ELSE {Json(doc), Partial}

\* fs::read_to_string(path) followed by the parse, as read_state sees it:
\* "absent" (NotFound), "corrupt" (parse error) or "ok"
ReadKind(c) ==
  IF c.kind = "absent" THEN "absent"
  ELSE IF IsSome(from_str(c)) THEN "ok" ELSE "corrupt"

IsPartial(c) == c.kind \in {"empty", "partial"}

\* clear_state(path): fs::remove_file, NotFound is not an error
clear_state(path) ==
  /\ file' = [file EXCEPT ![path] = NoFile]
  /\ IF path = "primary"
     THEN /\ ffd' = RelinkOnRemove(ffd)
          /\ dfd' = [d \in Pids |-> RelinkOnRemove(dfd[d])]
          /\ written' = None
     ELSE UNCHANGED <<ffd, dfd, written>>

(* ----------------------------- processes ------------------------------- *)
DaemonAlive(d) == dpc[d] \notin {"unborn", "done"}

\* the result of kill(pid, sig); pid 0 is the caller's process group and a
\* negative pid a group or every process, which exist
KillResult(pid) ==
  IF pid <= 0 THEN "ok"
  ELSE IF pid \in Pids /\ DaemonAlive(pid) THEN "ok"
  ELSE IF pid = ForeignPid THEN "EPERM"
  ELSE "ESRCH"

\* pid_alive that takes "no such process" for alive
pid_alive_EsrchAlive(pid) ==
  IF pid <= 0 THEN "false"
  ELSE IF KillResult(pid) = "ok" THEN "true"
  ELSE IF KillResult(pid) = "ESRCH" THEN "true"
  ELSE IF KillResult(pid) = "EPERM" THEN "true"
  ELSE "err"

\* pid_alive without the test pid <= 0
pid_alive_NoGuard(pid) ==
  IF KillResult(pid) = "ok" THEN "true"
  ELSE IF KillResult(pid) = "ESRCH" THEN "false"
  ELSE IF KillResult(pid) = "EPERM" THEN "true"
  ELSE "err"

\* pid_alive(pid): "true", "false" or "err"
pid_alive(pid) ==
  IF pid <= 0 THEN "false"
  ELSE IF KillResult(pid) = "ok" THEN "true"
  ELSE IF KillResult(pid) = "ESRCH" THEN "false"
  ELSE IF KillResult(pid) = "EPERM" THEN "true"
  ELSE "err"

\* send_sigterm(pid): "ok" or "err"
send_sigterm(pid) ==
  IF KillResult(pid) = "ok" THEN "ok"
  ELSE IF KillResult(pid) = "ESRCH" THEN "ok"
  ELSE "err"

\* the signals queued after kill(pid, SIGTERM)
Queue(pid) == IF KillResult(pid) = "ok" THEN sigpend \cup {pid} ELSE sigpend

(* ------------------------------ history -------------------------------- *)
Persisted(st) ==
  [ev |-> "persist", mode |-> st.mode,
   set |-> IF IsSome(st.cycle) THEN Unwrap(st.cycle).set ELSE 0]
Cleared == [ev |-> "clear", mode |-> "", set |-> 0]
Healed == [ev |-> "heal", mode |-> "", set |-> 0]
Notified(mode) == [ev |-> "notify", mode |-> mode, set |-> 0]

Log(d, e) == dlog' = [dlog EXCEPT ![d] = Append(@, e)]

(* ------------------------------ the daemon ----------------------------- *)
NoCur == [mode |-> "", start_ts |-> 0, end_ts |-> 0, minutes |-> 0]
Cur(st) ==
  [mode |-> st.mode, start_ts |-> st.start_ts, end_ts |-> st.end_ts,
   minutes |-> st.minutes]

\* the process ends: by return from run_daemon or by a signal
End(d, how) ==
  /\ dpc' = [dpc EXCEPT ![d] = "done"]
  /\ dexit' = [dexit EXCEPT ![d] = how]
  /\ sigpend' = sigpend \ {d}

\* wait_for_ready_fd that does not block on the pipe
wait_for_ready_fd_NoBlock(d) ==
  /\ dpc[d] = "wait"
  /\ dpc' = [dpc EXCEPT ![d] = "check1"]
  /\ UNCHANGED <<now, file, tmp, sigpend, pipeW, fvars, dcur, dcycle, dnext,
                 dfd, dexit, hvars>>

\* wait_for_ready_fd: read returns (EOF) once no write end is open
wait_for_ready_fd(d) ==
  /\ dpc[d] = "wait"
  /\ d \notin pipeW
  /\ dpc' = [dpc EXCEPT ![d] = "check1"]
  /\ UNCHANGED <<now, file, tmp, sigpend, pipeW, fvars, dcur, dcycle, dnext,
                 dfd, dexit, hvars>>

\* the ownership test of run_daemon on the contents c read from the state path
Owns(d, c) ==
  /\ ReadKind(c) = "ok"
  /\ state_matches(Unwrap(from_str(c)), d, dcur[d].mode, dcur[d].start_ts,
                   dcur[d].end_ts, dcur[d].minutes)

\* NextPhase with the last-set test off by one (cfg.set > cfg.sets)
NextPhase_OffByOne(d, t) ==
  IF ~IsSome(dcycle[d]) THEN None
  ELSE LET cfg == Unwrap(dcycle[d]) IN
    IF cfg.set > cfg.sets THEN None
    ELSE IF dcur[d].mode = "Work"
    THEN Some(State(d, "Break", t, deadline(t, cfg.break_minutes),
                    cfg.break_minutes, Some(cfg)))
    ELSE Some(State(d, "Work", t, deadline(t, cfg.work_minutes),
                    cfg.work_minutes,
                    Some([cfg EXCEPT !.set = cfg.set + 1])))

\* NextPhase that takes the Break length from work_minutes and the Work
\* length from break_minutes
NextPhase_SwapMinutes(d, t) ==
  IF ~IsSome(dcycle[d]) THEN None
  ELSE LET cfg == Unwrap(dcycle[d]) IN
    IF cfg.set >= cfg.sets THEN None
    ELSE IF dcur[d].mode = "Work"
    THEN Some(State(d, "Break", t, deadline(t, cfg.work_minutes),
                    cfg.work_minutes, Some(cfg)))
    ELSE Some(State(d, "Work", t, deadline(t, cfg.break_minutes),
                    cfg.break_minutes,
                    Some([cfg EXCEPT !.set = cfg.set + 1])))

\* the phase that follows the finished one: None when the run is over
\* (no cycle, or the last set), else next_state
NextPhase(d, t) ==
  IF ~IsSome(dcycle[d]) THEN None
  ELSE LET cfg == Unwrap(dcycle[d]) IN
    IF cfg.set >= cfg.sets THEN None
    ELSE IF dcur[d].mode = "Work"
    THEN Some(State(d, "Break", t, deadline(t, cfg.break_minutes),
                    cfg.break_minutes, Some(cfg)))
    ELSE Some(State(d, "Work", t, deadline(t, cfg.work_minutes),
                    cfg.work_minutes,
                    Some([cfg EXCEPT !.set = cfg.set + 1])))

\* loop head (lines 389-398): state_matches before the sleep
D_Check1(d) ==
  /\ dpc[d] = "check1"
  /\ IF ReadKind(file["primary"]) = "corrupt"
     THEN /\ dpc' = [dpc EXCEPT ![d] = "heal"]
          /\ UNCHANGED <<dexit, sigpend>>
     ELSE IF Owns(d, file["primary"])
     THEN /\ dpc' = [dpc EXCEPT ![d] = "sleep"]
          /\ UNCHANGED <<dexit, sigpend>>
     ELSE End(d, "superseded")
  /\ UNCHANGED <<now, file, tmp, pipeW, fvars, dcur, dcycle, dnext, dfd, dlog,
                 intr, wfailed, written>>

\* read_state found unparsable contents: clear_state, then state_matches
\* returns false and run_daemon returns
D_Heal(d) ==
  /\ dpc[d] = "heal"
  /\ clear_state("primary")
  /\ Log(d, Healed)
  /\ End(d, "superseded")
  /\ UNCHANGED <<now, tmp, pipeW, fpc, fcmd, farg, fpath, fst, stopped, fsig, fhealed, fin, fpipe,
                 fprev, child, fnew, fexit, nspawned, dcur, dcycle, dnext,
                 intr, wfailed>>

\* lines 400-403: thread::sleep returns once the deadline has passed
D_Sleep(d) ==
  /\ dpc[d] = "sleep"
  /\ now >= dcur[d].end_ts
  /\ dpc' = [dpc EXCEPT ![d] = "check2"]
  /\ UNCHANGED <<now, file, tmp, sigpend, pipeW, fvars, dcur, dcycle, dnext,
                 dfd, dexit, hvars>>

\* lines 405-446: state_matches after waking, then the transition decision
D_Check2(d) ==
  /\ dpc[d] = "check2"
  /\ IF ReadKind(file["primary"]) = "corrupt"
     THEN /\ dpc' = [dpc EXCEPT ![d] = "heal"]
          /\ UNCHANGED <<dexit, sigpend, dnext>>
     ELSE IF Owns(d, file["primary"])
     THEN /\ dnext' = [dnext EXCEPT ![d] = NextPhase(d, now)]
          /\ dpc' = [dpc EXCEPT ![d] =
                       IF IsSome(NextPhase(d, now)) THEN "w_open" ELSE "clear"]
          /\ UNCHANGED <<dexit, sigpend>>
     ELSE /\ End(d, "superseded")
          /\ UNCHANGED dnext
  /\ UNCHANGED <<now, file, tmp, pipeW, fvars, dcur, dcycle, dfd, dlog, intr, wfailed,
                 written>>

\* lines 420, 427, 461: let _ = clear_state(&state_path)
D_Clear(d) ==
  /\ dpc[d] = "clear"
  /\ clear_state("primary")
  /\ Log(d, Cleared)
  /\ dpc' = [dpc EXCEPT ![d] = "notify_exit"]
  /\ UNCHANGED <<now, tmp, sigpend, pipeW, fpc, fcmd, farg, fpath, fst,
                 stopped, fsig, fhealed, fin, fpipe, fprev, child, fnew, fexit, nspawned, dcur,
                 dcycle, dnext, dexit, intr, wfailed>>

\* lines 421-422, 428-429, 462-463: notify(finished_mode); return Ok(())
D_NotifyExit(d) ==
  /\ dpc[d] = "notify_exit"
  /\ Log(d, Notified(dcur[d].mode))
  /\ End(d, "finished")
  /\ UNCHANGED <<now, file, tmp, pipeW, fvars, dcur, dcycle, dnext, dfd, intr, wfailed,
                 written>>

\* D_WOpen that fires the notification before it returns the error
D_WOpen_NotifyFirst(d) ==
  /\ dpc[d] = "w_open"
  /\ \E ok \in BOOLEAN :
       IF ok
       THEN /\ tmp' = Empty
            /\ dfd' = [dfd EXCEPT ![d] = "tmp"]
            /\ dpc' = [dpc EXCEPT ![d] = "w_write"]
            /\ UNCHANGED <<dexit, sigpend, hvars>>
       ELSE /\ End(d, "error")
            /\ Log(d, Notified(dcur[d].mode))
            /\ UNCHANGED <<tmp, dfd, intr, wfailed, written>>
  /\ UNCHANGED <<now, file, pipeW, fvars, dcur, dcycle, dnext>>

\* write_state, fs::write: open(tmp, O_CREAT | O_TRUNC); it can fail
D_WOpen(d) ==
  /\ dpc[d] = "w_open"
  /\ \E ok \in BOOLEAN :
       IF ok
       THEN /\ tmp' = Empty
            /\ dfd' = [dfd EXCEPT ![d] = "tmp"]
            /\ dpc' = [dpc EXCEPT ![d] = "w_write"]
            /\ UNCHANGED <<dexit, sigpend>>
       ELSE /\ End(d, "error")
            /\ UNCHANGED <<tmp, dfd>>
  /\ UNCHANGED <<now, file, pipeW, fvars, dcur, dcycle, dnext, hvars>>

\* write_state, fs::write: write the bytes through the descriptor, close
D_WWrite(d) ==
  /\ dpc[d] = "w_write"
  /\ LET doc == to_vec(Unwrap(dnext[d])) IN
       IF dfd[d] = "tmp"
       THEN /\ tmp' \in WriteOutcomes(tmp, doc)
            /\ UNCHANGED file
       ELSE IF dfd[d] = "primary"
       THEN /\ \E c \in WriteOutcomes(file["primary"], doc) :
                 file' = [file EXCEPT !["primary"] = c]
            /\ UNCHANGED tmp
       ELSE UNCHANGED <<file, tmp>>
  /\ dfd' = [dfd EXCEPT ![d] = "none"]
  /\ dpc' = [dpc EXCEPT ![d] = "w_rename"]
  /\ UNCHANGED <<now, sigpend, pipeW, fvars, dcur, dcycle, dnext, dexit, hvars>>

\* write_state, fs::rename(tmp, path), then lines 449-453 / 488-492
D_WRename(d) ==
  /\ dpc[d] = "w_rename"
  /\ IF tmp = NoFile
     THEN /\ End(d, "error")
          /\ UNCHANGED <<file, tmp, ffd, dfd, dcur, dcycle, dlog, written>>
     ELSE /\ file' = [file EXCEPT !["primary"] = tmp]
          /\ tmp' = NoFile
          /\ ffd' = RelinkOnRename(ffd)
          /\ dfd' = [e \in Pids |-> RelinkOnRename(dfd[e])]
          /\ dcur' = [dcur EXCEPT ![d] = Cur(Unwrap(dnext[d]))]
          /\ dcycle' = [dcycle EXCEPT ![d] = Unwrap(dnext[d]).cycle]
          /\ Log(d, Persisted(Unwrap(dnext[d])))
          /\ written' = dnext[d]
          /\ dpc' = [dpc EXCEPT ![d] = "notify_loop"]
          /\ UNCHANGED <<dexit, sigpend>>
  /\ UNCHANGED <<now, pipeW, fpc, fcmd, farg, fpath, fst, stopped, fsig, fhealed, fin, fpipe, fprev,
                 child, fnew, fexit, nspawned, dnext, intr, wfailed>>

\* D_NotifyLoop that notifies for the mode of the new phase
D_NotifyLoop_NewMode(d) ==
  /\ dpc[d] = "notify_loop"
  /\ Log(d, Notified(dcur[d].mode))
  /\ dpc' = [dpc EXCEPT ![d] = "check1"]
  /\ UNCHANGED <<now, file, tmp, sigpend, pipeW, fvars, dcur, dcycle, dnext,
                 dfd, dexit, intr, wfailed, written>>

\* lines 455-456, 494: notify(finished_mode), back to the loop head
D_NotifyLoop(d) ==
  /\ dpc[d] = "notify_loop"
  /\ Log(d, Notified(IF dcur[d].mode = "Work" THEN "Break" ELSE "Work"))
  /\ dpc' = [dpc EXCEPT ![d] = "check1"]
  /\ UNCHANGED <<now, file, tmp, sigpend, pipeW, fvars, dcur, dcycle, dnext,
                 dfd, dexit, intr, wfailed, written>>

\* the kernel delivers a queued SIGTERM: the default action ends the process
DeliverSigterm(d) ==
  /\ d \in sigpend
  /\ DaemonAlive(d)
  /\ End(d, "killed")
  /\ dfd' = [dfd EXCEPT ![d] = "none"]
  /\ UNCHANGED <<now, file, tmp, pipeW, fvars, dcur, dcycle, dnext, hvars>>

\* the clock advances; it is observed only through now_unix and the sleep, so
\* it is advanced while a daemon waits for its deadline
Tick ==
  /\ now < MaxNow
  /\ \E d \in Pids : dpc[d] = "sleep" /\ now < dcur[d].end_ts
  /\ now' = now + TickSecs
  /\ UNCHANGED <<file, tmp, sigpend, pipeW, fvars, dvars, hvars>>

(* ------------------------- foreground commands ------------------------- *)
\* the arguments tried for start and break
MinutesArgs == {Some(0), Some(1)}
SetsArgs == {Some(1), Some(2), Some(MAX_SETS + 1)}
BreakMinutesArgs == {Some(1), Some(MAX_MINUTES + 1)}

NoArg == [mode |-> "", minutes |-> 0, cycle |-> None]

\* the command line: the subcommand and its optional arguments
NoIn == [cmd |-> "", minutes |-> None, sets |-> None, break_minutes |-> None]
In(cmd, minutes, sets, break_minutes) ==
  [cmd |-> cmd, minutes |-> minutes, sets |-> sets,
   break_minutes |-> break_minutes]

Spawned == {d \in Pids : dpc[d] # "unborn"}

\* the command returns: main exits with this status
FExit(code) ==
  /\ fpc' = "exit"
  /\ fexit' = code
  /\ UNCHANGED <<fcmd, farg, fpath, fst, stopped, child, fnew, fprev>>

\* the command goes on at pc, on the state file at path
FNext(pc, path) ==
  /\ fpc' = pc
  /\ fpath' = path
  /\ fst' = None
  /\ UNCHANGED <<fcmd, farg, fexit, fprev, stopped, child, fnew>>

\* what follows the handling of one location (no record there, or cleared):
\* start_session lines 210-211, stop lines 342-360, status lines 308-313
AfterPath ==
  IF fcmd = "start"
  THEN IF fpath = "legacy" THEN FNext("read", "primary")
       ELSE FNext("spawn", "primary")
  ELSE IF fcmd = "stop"
  THEN IF fpath = "primary" THEN FNext("read", "legacy")
       ELSE FExit(IF stopped THEN 0 ELSE 1)
  ELSE IF fpath = "primary" THEN FNext("read", "legacy")
       ELSE FExit(1)

\* a validation error: exit status 2 before start_session is entered
Invalid ==
  /\ fpc' = "exit"
  /\ fcmd' = "start"
  /\ fexit' = 2
  /\ fsig' = FALSE
  /\ fhealed' = FALSE
  /\ UNCHANGED <<now, file, tmp, sigpend, pipeW, farg, fpath, fst, ffd, stopped,
                 fprev, fpipe, child, fnew, nspawned, dvars, hvars>>

\* entry of start_session(mode, minutes, cycle)
start_session(mode, minutes, cycle) ==
  /\ fpc' = "read"
  /\ fcmd' = "start"
  /\ farg' = [mode |-> mode, minutes |-> minutes, cycle |-> cycle]
  /\ fpath' = "legacy"
  /\ fsig' = FALSE
  /\ fhealed' = FALSE
  /\ intr' = intr \cup Spawned
  /\ UNCHANGED <<now, file, tmp, sigpend, pipeW, fst, ffd, stopped, fprev,
                 fpipe, child, fnew, fexit, nspawned, dvars, dlog, written,
                 wfailed>>

\* start_single_session(mode, minutes)
start_single_session(mode, minutes) ==
  LET m == IF IsSome(minutes) THEN Unwrap(minutes)
           ELSE IF mode = "Work" THEN DEFAULT_WORK_MINUTES
           ELSE DEFAULT_BREAK_MINUTES
  IN IF validate_minutes(m) THEN start_session(mode, m, None) ELSE Invalid

\* start_work that validates break_minutes before the test sets <= 1
start_work_BreakFirst(minutes, sets, break_minutes) ==
  IF ~IsSome(sets) THEN start_single_session("Work", minutes)
  ELSE IF ~validate_sets(Unwrap(sets)) THEN Invalid
  ELSE IF IsSome(break_minutes) /\ ~validate_minutes(Unwrap(break_minutes))
  THEN Invalid
  ELSE IF Unwrap(sets) <= 1 THEN start_single_session("Work", minutes)
  ELSE LET wm == IF IsSome(minutes) THEN Unwrap(minutes)
                 ELSE DEFAULT_WORK_MINUTES
           bm == IF IsSome(break_minutes) THEN Unwrap(break_minutes)
                 ELSE DEFAULT_BREAK_MINUTES
       IN IF validate_minutes(wm) /\ validate_minutes(bm)
          THEN start_session("Work", wm, Some(Cycle(1, Unwrap(sets), wm, bm)))
          ELSE Invalid

\* start_work(minutes, sets, break_minutes)
start_work(minutes, sets, break_minutes) ==
  IF ~IsSome(sets) THEN start_single_session("Work", minutes)
  ELSE IF ~validate_sets(Unwrap(sets)) THEN Invalid
  ELSE IF Unwrap(sets) <= 1 THEN start_single_session("Work", minutes)
  ELSE LET wm == IF IsSome(minutes) THEN Unwrap(minutes)
                 ELSE DEFAULT_WORK_MINUTES
           bm == IF IsSome(break_minutes) THEN Unwrap(break_minutes)
                 ELSE DEFAULT_BREAK_MINUTES
       IN IF validate_minutes(wm) /\ validate_minutes(bm)
          THEN start_session("Work", wm, Some(Cycle(1, Unwrap(sets), wm, bm)))
          ELSE Invalid

\* tock start [MINUTES] [--sets N] [--break-minutes M]
F_Start ==
  /\ fpc = "idle"
  /\ nspawned < MaxSpawns
  /\ \E minutes \in MinutesArgs, sets \in SetsArgs,
        break_minutes \in BreakMinutesArgs :
       /\ IsSome(break_minutes) => IsSome(sets)
       /\ fin' = In("start", minutes, sets, break_minutes)
       /\ start_work(minutes, sets, break_minutes)

\* tock break [MINUTES]
F_Break ==
  /\ fpc = "idle"
  /\ nspawned < MaxSpawns
  /\ \E minutes \in MinutesArgs :
       /\ fin' = In("break", minutes, None, None)
       /\ start_single_session("Break", minutes)

\* tock stop
F_Stop ==
  /\ fpc = "idle"
  /\ fpc' = "read"
  /\ fcmd' = "stop"
  /\ fpath' = "primary"
  /\ stopped' = FALSE
  /\ fsig' = FALSE
  /\ fhealed' = FALSE
  /\ intr' = intr \cup Spawned
  /\ UNCHANGED <<now, file, tmp, sigpend, pipeW, farg, fst, ffd, fprev, fin,
                 fpipe, child, fnew, fexit, nspawned, dvars, dlog, written,
                 wfailed>>

\* tock status
F_Status ==
  /\ fpc = "idle"
  /\ fpc' = "read"
  /\ fcmd' = "status"
  /\ fpath' = "primary"
  /\ fsig' = FALSE
  /\ fhealed' = FALSE
  /\ UNCHANGED <<now, file, tmp, sigpend, pipeW, farg, fst, ffd, stopped,
                 fprev, fin, fpipe, child, fnew, fexit, nspawned, dvars, hvars>>

\* read_state(path): read_to_string and the parse
F_Read ==
  /\ fpc = "read"
  /\ IF ReadKind(file[fpath]) = "absent" THEN AfterPath
     ELSE IF ReadKind(file[fpath]) = "corrupt"
     THEN /\ fpc' = "heal"
          /\ UNCHANGED <<fcmd, farg, fpath, fst, stopped, child, fnew, fexit,
                         fprev>>
     ELSE /\ fpc' = "probe"
          /\ fst' = from_str(file[fpath])
          /\ UNCHANGED <<fcmd, farg, fpath, stopped, child, fnew, fexit, fprev>>
  /\ fhealed' = (fhealed \/ ReadKind(file[fpath]) = "corrupt")
  /\ UNCHANGED <<now, file, tmp, sigpend, pipeW, ffd, fsig, fin, fpipe, nspawned,
                 dvars, hvars>>

\* read_state that returns Ok(None) on a parse error without clear_state
F_Heal_NoClear ==
  /\ fpc = "heal"
  /\ AfterPath
  /\ UNCHANGED <<now, file, tmp, sigpend, pipeW, ffd, fsig, fhealed, fin, fpipe, nspawned,
                 dvars, hvars>>

\* read_state(path) on a parse error: let _ = clear_state(path); Ok(None)
F_Heal ==
  /\ fpc = "heal"
  /\ clear_state(fpath)
  /\ AfterPath
  /\ UNCHANGED <<now, tmp, sigpend, pipeW, fsig, fhealed, fin, fpipe, nspawned,
                 dpc, dcur, dcycle, dnext, dexit, dlog, intr, wfailed>>

\* pid_alive(state.pid) in stop_existing, stop and status
F_Probe ==
  /\ fpc = "probe"
  /\ LET r == pid_alive(Unwrap(fst).pid) IN
       IF r = "err" THEN FExit(2)
       ELSE IF r = "false"
       THEN /\ fpc' = "clear"
            /\ UNCHANGED <<fcmd, farg, fpath, fst, stopped, child, fnew, fexit,
                           fprev>>
       ELSE IF fcmd = "status" THEN FExit(0)
       ELSE /\ fpc' = "term"
            /\ UNCHANGED <<fcmd, farg, fpath, fst, stopped, child, fnew, fexit,
                           fprev>>
  /\ UNCHANGED <<now, file, tmp, sigpend, pipeW, ffd, fsig, fhealed, fin, fpipe, nspawned, dvars,
                 hvars>>

\* send_sigterm(state.pid)? in stop_existing and stop
F_Term ==
  /\ fpc = "term"
  /\ IF send_sigterm(Unwrap(fst).pid) = "err"
     THEN /\ FExit(2)
          /\ UNCHANGED <<sigpend, fsig>>
     ELSE /\ sigpend' = Queue(Unwrap(fst).pid)
          /\ fsig' = (fsig \/ KillResult(Unwrap(fst).pid) = "ok")
          /\ stopped' = (stopped \/ fcmd = "stop")
          /\ fpc' = "clear"
          /\ UNCHANGED <<fcmd, farg, fpath, fst, child, fnew, fexit, fprev>>
  /\ UNCHANGED <<now, file, tmp, pipeW, ffd, fhealed, fin, fpipe, nspawned, dvars, hvars>>

\* clear_state(path)? in stop_existing, stop and status
F_Clear ==
  /\ fpc = "clear"
  /\ clear_state(fpath)
  /\ IF fcmd = "status" THEN FExit(1) ELSE AfterPath
  /\ UNCHANGED <<now, tmp, sigpend, pipeW, fsig, fhealed, fin, fpipe, nspawned,
                 dpc, dcur, dcycle, dnext, dexit, dlog, intr, wfailed>>

\* the arguments start_session passes to the daemon's parse_cycle
CycleArgs(cycle) ==
  IF IsSome(cycle)
  THEN parse_cycle(Some(Unwrap(cycle).sets), Some(Unwrap(cycle).set),
                   Some(Unwrap(cycle).work_minutes),
                   Some(Unwrap(cycle).break_minutes))
  ELSE parse_cycle(None, None, None, None)

\* start_session lines 213-279: the deadline, the pipe, the spawn; the child
\* runs run_daemon lines 374-381 up to wait_for_ready_fd
F_Spawn ==
  /\ fpc = "spawn"
  /\ \E ok \in BOOLEAN :
       IF ok
       THEN LET d == nspawned + 1
                valid == /\ validate_minutes(farg.minutes)
                         /\ CycleArgs(farg.cycle)[1] = "ok"
            IN /\ nspawned' = d
               /\ child' = d
               /\ pipeW' = pipeW \cup {d}
               /\ dpc' = [dpc EXCEPT ![d] = IF valid THEN "wait" ELSE "done"]
               /\ dexit' = [dexit EXCEPT ![d] = IF valid THEN "" ELSE "error"]
               /\ dcycle' = [dcycle EXCEPT ![d] = CycleArgs(farg.cycle)[2]]
               /\ dcur' = [dcur EXCEPT ![d] =
                             [mode |-> farg.mode, start_ts |-> now,
                              end_ts |-> deadline(now, farg.minutes),
                              minutes |-> farg.minutes]]
               /\ fnew' = Some(State(d, farg.mode, now,
                                     deadline(now, farg.minutes),
                                     farg.minutes, farg.cycle))
               /\ fpc' = "w_open"
               /\ fpipe' = "open"
               /\ UNCHANGED <<fcmd, farg, fpath, fst, stopped, fexit, fprev>>
       ELSE /\ FExit(2)
            /\ fpipe' = "closed"
            /\ UNCHANGED <<nspawned, pipeW, dpc, dexit, dcycle, dcur>>
  /\ UNCHANGED <<now, file, tmp, sigpend, ffd, fsig, fhealed, fin, dnext, dfd, hvars>>

\* write_state(&state_path, &state), fs::write: open(tmp, O_CREAT | O_TRUNC)
F_WOpen ==
  /\ fpc = "w_open"
  /\ \E ok \in BOOLEAN :
       IF ok
       THEN /\ tmp' = Empty
            /\ ffd' = "tmp"
            /\ fpc' = "w_write"
       ELSE /\ fpc' = "w_fail"
            /\ UNCHANGED <<tmp, ffd>>
  /\ UNCHANGED <<now, file, sigpend, pipeW, fcmd, farg, fpath, fst, stopped,
                 fsig, fhealed, fin, fpipe, fprev, child, fnew, fexit, nspawned, dvars, hvars>>

\* write_state, fs::write: write the bytes through the descriptor, close
F_WWrite ==
  /\ fpc = "w_write"
  /\ LET doc == to_vec(Unwrap(fnew)) IN
       IF ffd = "tmp"
       THEN /\ tmp' \in WriteOutcomes(tmp, doc)
            /\ UNCHANGED file
       ELSE IF ffd = "primary"
       THEN /\ \E c \in WriteOutcomes(file["primary"], doc) :
                 file' = [file EXCEPT !["primary"] = c]
            /\ UNCHANGED tmp
       ELSE UNCHANGED <<file, tmp>>
  /\ ffd' = "none"
  /\ fpc' = "w_rename"
  /\ UNCHANGED <<now, sigpend, pipeW, fcmd, farg, fpath, fst, stopped, fsig, fhealed, fin, fpipe,
                 fprev, child, fnew, fexit, nspawned, dvars, hvars>>

\* write_state, fs::rename(tmp, path)
F_WRename ==
  /\ fpc = "w_rename"
  /\ IF tmp = NoFile
     THEN /\ fpc' = "w_fail"
          /\ UNCHANGED <<file, tmp, ffd, dfd, dlog, written>>
     ELSE /\ file' = [file EXCEPT !["primary"] = tmp]
          /\ tmp' = NoFile
          /\ ffd' = RelinkOnRename(ffd)
          /\ dfd' = [e \in Pids |-> RelinkOnRename(dfd[e])]
          /\ Log(child, Persisted(Unwrap(fnew)))
          /\ written' = fnew
          /\ fpc' = "ready"
  /\ UNCHANGED <<now, sigpend, pipeW, fcmd, farg, fpath, fst, stopped, fsig, fhealed, fin, fpipe,
                 fprev, child, fnew, fexit, nspawned, dpc, dcur, dcycle, dnext,
                 dexit, intr, wfailed>>

\* lines 280-287: write_state failed: send_sigterm(pid), close the pipe, Err
F_WFail ==
  /\ fpc = "w_fail"
  /\ sigpend' = Queue(child)
  /\ pipeW' = pipeW \ {child}
  /\ fpipe' = "closed"
  /\ wfailed' = wfailed \cup {child}
  /\ FExit(2)
  /\ UNCHANGED <<now, file, tmp, ffd, fsig, fhealed, fin, nspawned, dvars, dlog,
                 intr, written>>

\* lines 289-301: close both pipe ends, report, Ok(())
F_Ready ==
  /\ fpc = "ready"
  /\ pipeW' = pipeW \ {child}
  /\ fpipe' = "closed"
  /\ FExit(0)
  /\ UNCHANGED <<now, file, tmp, sigpend, ffd, fsig, fhealed, fin, nspawned, dvars, hvars>>

\* main, line 172: std::process::exit(exit_code)
F_Exit ==
  /\ fpc = "exit"
  /\ fpc' = "idle"
  /\ fprev' = fcmd
  /\ fcmd' = "none"
  /\ farg' = NoArg
  /\ fpath' = "primary"
  /\ fst' = None
  /\ stopped' = FALSE
  /\ fsig' = FALSE
  /\ fhealed' = FALSE
  /\ child' = 0
  /\ fnew' = None
  /\ fexit' = -1
  /\ fin' = NoIn
  /\ fpipe' = "none"
  /\ UNCHANGED <<now, file, tmp, sigpend, pipeW, ffd, nspawned, dvars, hvars>>

(* --------------------------- specification ----------------------------- *)
\* a record left by an earlier run
Leftover(pid) == Json(to_vec(State(pid, "Work", 0, SecsPerMinute, 1, None)))

\* what a state file can hold when the first command runs
InitContents == {NoFile, Garbage, Leftover(StalePid), Leftover(ForeignPid)}

InitWith(contents) ==
  /\ now = 0
  /\ file \in [Paths -> contents]
  /\ tmp = NoFile
  /\ sigpend = {}
  /\ pipeW = {}
  /\ fpc = "idle"
  /\ fcmd = "none"
  /\ farg = NoArg
  /\ fpath = "primary"
  /\ fst = None
  /\ ffd = "none"
  /\ stopped = FALSE
  /\ fsig = FALSE
  /\ fhealed = FALSE
  /\ fprev = "none"
  /\ fin = NoIn
  /\ fpipe = "none"
  /\ child = 0
  /\ fnew = None
  /\ fexit = -1
  /\ nspawned = 0
  /\ dpc = [d \in Pids |-> "unborn"]
  /\ dcur = [d \in Pids |-> NoCur]
  /\ dcycle = [d \in Pids |-> None]
  /\ dnext = [d \in Pids |-> None]
  /\ dfd = [d \in Pids |-> "none"]
  /\ dexit = [d \in Pids |-> ""]
  /\ dlog = [d \in Pids |-> <<>>]
  /\ intr = {}
  /\ written = None
  /\ wfailed = {}

Init == InitWith(InitContents)

run_daemon(d) ==
  \/ wait_for_ready_fd(d)
  \/ D_Check1(d)
  \/ D_Heal(d)
  \/ D_Sleep(d)
  \/ D_Check2(d)
  \/ D_Clear(d)
  \/ D_NotifyExit(d)
  \/ D_WOpen(d)
  \/ D_WWrite(d)
  \/ D_WRename(d)
  \/ D_NotifyLoop(d)

Foreground ==
  \/ F_Start
  \/ F_Break
  \/ F_Stop
  \/ F_Status
  \/ F_Read
  \/ F_Heal
  \/ F_Probe
  \/ F_Term
  \/ F_Clear
  \/ F_Spawn
  \/ F_WOpen
  \/ F_WWrite
  \/ F_WRename
  \/ F_WFail
  \/ F_Ready
  \/ F_Exit

Next ==
  \/ Foreground
  \/ \E d \in Pids : run_daemon(d)
  \/ \E d \in Pids : DeliverSigterm(d)
  \/ Tick

Spec == Init /\ [][Next]_vars

(* An undisturbed run: one start with --sets 1, 2 or 3 (work 1 minute, break  *)
(* 2 minutes), then only status commands, and a clock that runs long enough  *)
(* for the whole run.                                                        *)
CycleSetsArgs == {Some(1), Some(2), Some(3)}

F_StartCycle ==
  /\ fpc = "idle"
  /\ nspawned = 0
  /\ \E sets \in CycleSetsArgs :
       /\ fin' = In("start", Some(1), sets, Some(2))
       /\ start_work(Some(1), sets, Some(2))

TickCycle ==
  /\ now < MaxCycleTicks * TickSecs
  /\ \E d \in Pids : dpc[d] = "sleep" /\ now < dcur[d].end_ts
  /\ now' = now + TickSecs
  /\ UNCHANGED <<file, tmp, sigpend, pipeW, fvars, dvars, hvars>>

\* run_daemon without D_Heal: with one writer at a time no unparsable file
\* appears at the primary path once the daemon runs (NoHealInCycle)
run_cycle_daemon(d) ==
  \/ wait_for_ready_fd(d)
  \/ D_Check1(d)
  \/ D_Sleep(d)
  \/ D_Check2(d)
  \/ D_Clear(d)
  \/ D_NotifyExit(d)
  \/ D_WOpen(d)
  \/ D_WWrite(d)
  \/ D_WRename(d)
  \/ D_NotifyLoop(d)

NextCycle ==
  \/ F_StartCycle
  \/ F_Status
  \/ F_Read
  \/ F_Heal
  \/ F_Probe
  \/ F_Term
  \/ F_Clear
  \/ F_Spawn
  \/ F_WOpen
  \/ F_WWrite
  \/ F_WRename
  \/ F_WFail
  \/ F_Ready
  \/ F_Exit
  \/ \E d \in Pids : run_cycle_daemon(d)
  \/ \E d \in Pids : DeliverSigterm(d)
  \/ TickCycle

SpecCycle == Init /\ [][NextCycle]_vars

\* a command that has begun runs to its end
F_Continue ==
  \/ F_Read
  \/ F_Heal
  \/ F_Probe
  \/ F_Term
  \/ F_Clear
  \/ F_Spawn
  \/ F_WOpen
  \/ F_WWrite
  \/ F_WRename
  \/ F_WFail
  \/ F_Ready
  \/ F_Exit

\* the undisturbed run under a scheduler that keeps running the daemon and
\* the command in progress, and a clock that keeps going
SpecCycleLive ==
  /\ SpecCycle
  /\ WF_vars(\E d \in Pids : run_cycle_daemon(d))
  /\ WF_vars(F_Continue)
  /\ WF_vars(TickCycle)

\* under SpecCycle no daemon meets an unparsable file
NoHealInCycle == \A d \in Pids : dpc[d] # "heal"

(* The commands on what an earlier run left behind: the first start or break *)
(* with any argument at, inside and outside the limits, and stop and status, *)
(* on state files that can also hold a record with a placeholder pid.  The   *)
(* daemon is followed up to the end of the handshake.                        *)
MinutesAnyArgs ==
  {None, Some(0), Some(1), Some(MAX_MINUTES), Some(MAX_MINUTES + 1)}
SetsAnyArgs ==
  {None, Some(0), Some(1), Some(2), Some(MAX_SETS), Some(MAX_SETS + 1)}

\* pids a record can carry that are no process: zero and a negative value
PlaceholderPids == {0, -1}

InitCmd ==
  InitWith(InitContents \cup {Leftover(pid) : pid \in PlaceholderPids})

F_StartAny ==
  /\ fpc = "idle"
  /\ nspawned = 0
  /\ \E minutes \in MinutesAnyArgs, sets \in SetsAnyArgs,
        break_minutes \in MinutesAnyArgs :
       /\ IsSome(break_minutes) => IsSome(sets)
       /\ fin' = In("start", minutes, sets, break_minutes)
       /\ start_work(minutes, sets, break_minutes)

F_BreakAny ==
  /\ fpc = "idle"
  /\ nspawned = 0
  /\ \E minutes \in MinutesAnyArgs :
       /\ fin' = In("break", minutes, None, None)
       /\ start_single_session("Break", minutes)

NextCmd ==
  \/ F_StartAny
  \/ F_BreakAny
  \/ F_Stop
  \/ F_Status
  \/ F_Read
  \/ F_Heal
  \/ F_Probe
  \/ F_Term
  \/ F_Clear
  \/ F_Spawn
  \/ F_WOpen
  \/ F_WWrite
  \/ F_WRename
  \/ F_WFail
  \/ F_Ready
  \/ F_Exit
  \/ \E d \in Pids : wait_for_ready_fd(d)
  \/ \E d \in Pids : DeliverSigterm(d)

SpecCmd == InitCmd /\ [][NextCmd]_vars

(* ------------------------------ properties ----------------------------- *)
\* the parent's write_state for daemon d has begun and has not returned
WritePending(d) ==
  /\ fcmd = "start"
  /\ child = d
  /\ fpc \in {"w_open", "w_write", "w_rename"}

\* C1: while the parent's write_state for a daemon is pending, that daemon is
\* still blocked in wait_for_ready_fd: it has done no ownership check, no
\* write, no clear and no notification.
C1_ReadyAfterWrite ==
  \A d \in Pids : WritePending(d) => dpc[d] = "wait" /\ dlog[d] = <<>>

\* the parent is about to rename the record into place and the daemon waits
C1_Witness ==
  \E d \in Pids : WritePending(d) /\ fpc = "w_rename" /\ dpc[d] = "wait"

\* the record on disk, as the JSON document it holds, is not daemon d's
\* current phase: absent, unparsable, or one of the five fields differs
RecordDiffers(d) ==
  \/ file["primary"].kind # "json"
  \/ LET doc == file["primary"].doc[1] IN
       \/ doc.pid # d
       \/ doc.mode # ModeToJson(dcur[d].mode)
       \/ doc.start_ts # dcur[d].start_ts
       \/ doc.end_ts # dcur[d].end_ts
       \/ doc.minutes # dcur[d].minutes

\* daemon d completes the read of an ownership check in this step
CheckStep(d) ==
  /\ dpc[d] \in {"check1", "check2"}
  /\ dpc'[d] # dpc[d]
  /\ dexit'[d] # "killed"

\* C2: an ownership check (before the sleep or after waking) that finds the
\* record absent or different from the daemon's in-memory phase ends the
\* daemon (after read_state's removal of an unparsable file), and an ended
\* daemon writes, clears and notifies no more.
C2_SelfEviction ==
  [][\A d \in Pids :
       /\ CheckStep(d) /\ RecordDiffers(d)
            => /\ dpc'[d] \in {"heal", "done"}
               /\ dpc'[d] = "done" => dexit'[d] = "superseded"
               /\ dlog'[d] = dlog[d]
       /\ dpc[d] = "heal" /\ dpc'[d] # "heal"
            => dpc'[d] = "done" /\ dexit'[d] \in {"superseded", "killed"}
       /\ dpc[d] = "done" => dpc'[d] = "done" /\ dlog'[d] = dlog[d]]_vars

\* a daemon has ended as superseded while the record on disk names another pid
C2_Witness ==
  \E d \in Pids :
    /\ dexit[d] = "superseded"
    /\ file["primary"].kind = "json"
    /\ file["primary"].doc[1].pid # d

\* daemon d replaces or removes the file at the state path in this step
DaemonRewrites(d) == dpc[d] = "w_rename" /\ dpc'[d] = "notify_loop"
DaemonDeletes(d) == dpc[d] = "clear" /\ dpc'[d] = "notify_exit"

OwnRecordOnDisk(d) ==
  /\ file["primary"].kind = "json"
  /\ file["primary"].doc[1].pid = d

\* C3: a daemon rewrites or deletes the state record only when the record on
\* disk at that moment carries its own pid: it never overwrites or deletes a
\* record written for a different daemon.
C3_OwnRecordOnly ==
  [][\A d \in Pids :
       /\ DaemonRewrites(d) \/ DaemonDeletes(d)
       /\ file["primary"].kind # "absent"
       => OwnRecordOnDisk(d)]_vars

\* C4: at most one daemon process is alive at any instant (a daemon with a
\* termination signal already queued is not counted).
C4_SingleLiveDaemon ==
  Cardinality({d \in Pids : DaemonAlive(d) /\ d \notin sigpend}) <= 1

\* C5: no read of a state path (by a command or by a daemon's ownership
\* check) returns a partially written record.
C5_NoPartialRead ==
  [][/\ fpc = "read" /\ fpc' # "read" => ~IsPartial(file[fpath])
     /\ \A d \in Pids : CheckStep(d) => ~IsPartial(file["primary"])]_vars

\* the persists and clears of a daemon's run, in order
EventsOf(log) == SelectSeq(log, LAMBDA e : e.ev \in {"persist", "clear"})

\* Work(1), Break(1), Work(2), ..., Break(s-1), Work(s), cleared
ExpectedLog(s) ==
  [i \in 1..(2 * s) |->
     IF i = 2 * s THEN Cleared
     ELSE [ev |-> "persist",
           mode |-> IF i % 2 = 1 THEN "Work" ELSE "Break",
           set |-> (i + 1) \div 2]]

IsPrefix(a, b) ==
  /\ Len(a) <= Len(b)
  /\ \A i \in 1..Len(a) : a[i] = b[i]

\* C6: the records persisted for an uninterrupted cycle of s >= 2 sets are, in
\* order, Work(1), Break(1), Work(2), ..., Break(s-1), Work(s) and then the
\* clear; a run that finishes has persisted exactly that sequence.
C6_CyclePhases ==
  \A d \in Pids :
    d \notin intr /\ IsSome(dcycle[d]) =>
      LET s == Unwrap(dcycle[d]).sets IN
        /\ s >= 2
        /\ IsPrefix(EventsOf(dlog[d]), ExpectedLog(s))
        /\ dexit[d] = "finished" => EventsOf(dlog[d]) = ExpectedLog(s)

\* a cycle of three sets has run to its end
C6_Witness ==
  \E d \in Pids :
    /\ d \notin intr
    /\ IsSome(dcycle[d])
    /\ Unwrap(dcycle[d]).sets = 3
    /\ dexit[d] = "finished"
    /\ Len(EventsOf(dlog[d])) = 6

\* the foreground command c returns in this step
CmdReturns(c) == fcmd' = c /\ fpc # "exit" /\ fpc' = "exit"

NoStateFiles == \A p \in Paths : file[p].kind = "absent"

\* C7: when stop returns, no record is left at either path, whatever the
\* liveness probe and the termination signal answered; stop exits 0 if it
\* signalled at least one live pid and 1 otherwise.
C7_StopAlwaysClears ==
  [][CmdReturns("stop") =>
       /\ NoStateFiles'
       /\ fexit' \in {0, 1}
       /\ fexit' = 0 <=> fsig']_vars

\* C8: a stop that directly follows a stop leaves no state file at either
\* path and exits 1.
C8_StopTwice ==
  [][CmdReturns("stop") /\ fprev = "stop" => NoStateFiles' /\ fexit' = 1]_vars

\* what kill(pid, 0) tells about the pid of a record
ProbeSaysAlive(pid) == pid > 0 /\ KillResult(pid) \in {"ok", "EPERM"}

\* C9: status on a record whose pid is not alive removes the file it read the
\* record from and exits 1; status exits 0 only on a record whose pid the
\* probe reports alive; status that found no record at either path exits 1.
C9_StatusCleanup ==
  [][fcmd = "status" =>
       /\ fpc = "probe" /\ fpc' # "probe" /\ ~ProbeSaysAlive(Unwrap(fst).pid)
            => fpc' = "clear"
       /\ fpc = "clear" /\ fpc' # "clear"
            => file'[fpath].kind = "absent" /\ fpc' = "exit" /\ fexit' = 1
       /\ CmdReturns("status") /\ fexit' = 0
            => fpc = "probe" /\ IsSome(fst) /\ ProbeSaysAlive(Unwrap(fst).pid)
       /\ CmdReturns("status") /\ ~IsSome(fst) => fexit' = 1]_vars

\* status has read a record of a dead pid, removed its file and exits 1
C9_Witness ==
  /\ fcmd = "status"
  /\ fpc = "exit"
  /\ fexit = 1
  /\ IsSome(fst)
  /\ ~ProbeSaysAlive(Unwrap(fst).pid)
  /\ file[fpath].kind = "absent"

\* contents that are there and do not parse as a Session State
Unparsable(c) == c.kind \notin {"absent", "json"}

\* read_state on unparsable contents removes the file and the caller goes on
\* as on an absent file: start and stop with the next location (or the
\* spawn, or the exit), the daemon by ending as superseded
HealsAsAbsent ==
  /\ fpc = "read" /\ fpc' # "read" /\ Unparsable(file[fpath])
       => fpc' = "heal" /\ fexit' = fexit
  /\ fpc = "heal" /\ fpc' # "heal"
       => /\ file'[fpath].kind = "absent"
          /\ fpath = "primary" /\ fcmd \in {"stop", "status"}
               => fpc' = "read" /\ fpath' = "legacy"
          /\ fpath = "legacy" /\ fcmd = "start"
               => fpc' = "read" /\ fpath' = "primary"
          /\ fpath = "primary" /\ fcmd = "start" => fpc' = "spawn"
          /\ fpath = "legacy" /\ fcmd = "stop"
               => fpc' = "exit" /\ fexit' \in {0, 1}
          /\ fpath = "legacy" /\ fcmd = "status"
               => fpc' = "exit" /\ fexit' = 1
  /\ \A d \in Pids :
       /\ CheckStep(d) /\ Unparsable(file["primary"]) => dpc'[d] = "heal"
       /\ dpc[d] = "heal" /\ dpc'[d] # "heal" /\ dexit'[d] # "killed"
            => /\ file'["primary"].kind = "absent"
               /\ dpc'[d] = "done"
               /\ dexit'[d] = "superseded"

OutOfRange(o, hi) == IsSome(o) /\ (Unwrap(o) < 1 \/ Unwrap(o) > hi)

BadArgs(a) ==
  /\ a.cmd \in {"start", "break"}
  /\ \/ OutOfRange(a.minutes, 1440)
     \/ a.cmd = "start" /\ OutOfRange(a.sets, 100)
     \/ /\ a.cmd = "start"
        /\ IsSome(a.sets)
        /\ Unwrap(a.sets) >= 2
        /\ OutOfRange(a.break_minutes, 1440)

\* C11: start or break with an out-of-range argument exits 2, and the state
\* files, the temporary file, the signals, the pipes and the daemons are in
\* that step, and when the command leaves, exactly as they were.
C11_ValidationNoMutation ==
  [][/\ fpc = "idle" /\ BadArgs(fin')
          => /\ fpc' = "exit"
             /\ fexit' = 2
             /\ UNCHANGED <<now, file, tmp, sigpend, pipeW, nspawned, dvars, dlog,
                            written>>
     /\ fpc = "exit" /\ fpc' = "idle"
          => UNCHANGED <<now, file, tmp, sigpend, pipeW, nspawned, dvars, dlog,
                         written>>]_vars

\* a start with an out-of-range argument has failed while a daemon runs on
\* its own record
C11_Witness ==
  /\ fpc = "exit"
  /\ fexit = 2
  /\ BadArgs(fin)
  /\ \E d \in Pids : DaemonAlive(d) /\ OwnRecordOnDisk(d)

\* the spawn in start_session fails in this step
SpawnFails == fcmd = "start" /\ fpc = "spawn" /\ fpc' = "exit"

\* C12: when the spawn fails, no record is left at either path, every daemon
\* still alive has its termination signal queued, no record is written and
\* no process is created, both pipe ends are closed, and the exit status is 2.
C12_SpawnFailure ==
  [][SpawnFails =>
       /\ NoStateFiles'
       /\ \A d \in Pids : DaemonAlive(d) => d \in sigpend
       /\ file' = file
       /\ tmp' = tmp
       /\ nspawned' = nspawned
       /\ fpipe' = "closed"
       /\ fexit' = 2]_vars

\* the records start_session and the daemons have built, are writing or have
\* written: in memory, in the temporary file and at the state path
InMemoryRecords ==
  {Unwrap(o) : o \in {x \in {fnew, written} \cup {dnext[d] : d \in Pids} :
                        IsSome(x)}}

OnDiskRecords ==
  {Unwrap(from_str(c)) :
     c \in {x \in {file["primary"], tmp} :
              x.kind = "json" /\ x.doc[1].pid \in Pids}}

WrittenRecords == InMemoryRecords \cup OnDiskRecords

WellTimed(st) ==
  /\ st.end_ts = st.start_ts + st.minutes * 60
  /\ IsSome(st.cycle) =>
       st.minutes = IF st.mode = "Work" THEN Unwrap(st.cycle).work_minutes
                    ELSE Unwrap(st.cycle).break_minutes

\* C13: every record written by start_session or by a phase transition has
\* end_ts = start_ts + minutes * 60, and with a cycle its minutes are the
\* cycle's work_minutes in Work mode and break_minutes in Break mode.
C13_DeadlineInvariant == \A st \in WrittenRecords : WellTimed(st)

\* a daemon's Break record of 2 minutes is on disk
C13_Witness ==
  /\ file["primary"].kind = "json"
  /\ file["primary"].doc[1].mode = "break"
  /\ file["primary"].doc[1].pid \in Pids
  /\ file["primary"].doc[1].minutes = 2
  /\ file["primary"].doc[1].end_ts = file["primary"].doc[1].start_ts + 120

CycleInBounds(c) == 1 <= c.set /\ c.set <= c.sets /\ 2 <= c.sets /\ c.sets <= 100

\* C14: in every record written by start or by a daemon, a cycle that is
\* present has 1 <= set <= sets and 2 <= sets <= 100.
C14_CycleBounds ==
  \A st \in WrittenRecords : IsSome(st.cycle) => CycleInBounds(Unwrap(st.cycle))

\* the Work record of the last of three sets is on disk
C14_Witness ==
  /\ file["primary"].kind = "json"
  /\ file["primary"].doc[1].pid \in Pids
  /\ IsSome(file["primary"].doc[1].cycle)
  /\ Unwrap(file["primary"].doc[1].cycle).set = 3
  /\ Unwrap(file["primary"].doc[1].cycle).sets = 3

\* a start with minutes m in [1, 1440], sets absent or in [1, 100] and, for
\* sets >= 2, break-minutes absent or in [1, 1440]
ClaimedStart(a) ==
  /\ a.cmd = "start"
  /\ IsSome(a.minutes) /\ ~OutOfRange(a.minutes, 1440)
  /\ ~OutOfRange(a.sets, 100)
  /\ IsSome(a.sets) /\ Unwrap(a.sets) >= 2 => ~OutOfRange(a.break_minutes, 1440)

\* the cycle the record of such a start carries
ExpectedCycle(a) ==
  IF ~IsSome(a.sets) \/ Unwrap(a.sets) <= 1 THEN None
  ELSE Some([set |-> 1, sets |-> Unwrap(a.sets),
             work_minutes |-> Unwrap(a.minutes),
             break_minutes |-> IF IsSome(a.break_minutes)
                               THEN Unwrap(a.break_minutes) ELSE 5])

\* C15: a start with minutes m in [1, 1440] and sets absent or in [1, 100] is
\* accepted, whatever break-minutes says when sets is absent or 1, and the
\* record it puts at the state path is a Work record of m minutes, without a
\* cycle when sets is absent or 1, else with the cycle sets = s, set = 1,
\* work_minutes = m and the given (or default 5) break_minutes.
C15_StartConfiguration ==
  [][/\ fpc = "idle" /\ ClaimedStart(fin') => fpc' = "read"
     /\ ClaimedStart(fin) /\ fpc = "w_rename" /\ fpc' = "ready"
          => /\ file'["primary"].kind = "json"
             /\ file'["primary"].doc[1].pid = child
             /\ file'["primary"].doc[1].mode = "work"
             /\ file'["primary"].doc[1].minutes = Unwrap(fin.minutes)
             /\ file'["primary"].doc[1].cycle = ExpectedCycle(fin)]_vars

\* a start with --sets 100 and no --break-minutes has written its record
C15_Witness ==
  /\ fpc = "ready"
  /\ fin.cmd = "start"
  /\ fin.sets = Some(100)
  /\ fin.break_minutes = None
  /\ file["primary"].kind = "json"
  /\ IsSome(file["primary"].doc[1].cycle)
  /\ Unwrap(file["primary"].doc[1].cycle).break_minutes = 5

\* the record the command has read carries a pid that is zero or negative
Placeholder == IsSome(fst) /\ Unwrap(fst).pid <= 0

\* C16: a record whose pid is zero or negative is taken for dead: the probe
\* sends the command to clear_state without any signal, no termination
\* signal is sent for it, the file is removed, and status exits 1.
C16_PlaceholderPid ==
  [][/\ fpc = "probe" /\ Placeholder /\ fpc' # "probe"
          => fpc' = "clear" /\ sigpend' = sigpend
     /\ fpc = "term" => ~Placeholder
     /\ fpc = "clear" /\ Placeholder /\ fpc' # "clear"
          => /\ file'[fpath].kind = "absent"
             /\ sigpend' = sigpend
             /\ fcmd = "status" => fpc' = "exit" /\ fexit' = 1]_vars

\* status has read a record with a placeholder pid, removed it and exits 1
C16_Witness ==
  /\ fcmd = "status"
  /\ fpc = "exit"
  /\ fexit = 1
  /\ Placeholder
  /\ file[fpath].kind = "absent"

HoldsLiveRecord(c) ==
  /\ IsSome(from_str(c))
  /\ ProbeSaysAlive(Unwrap(from_str(c)).pid)

\* C18: status reports not running (exit 1) only if neither the primary nor
\* the legacy location holds a record whose pid is alive; a stop that
\* returns 0 or 1 and a start that gets to its spawn have left no record at
\* either location.
C18_BothLocations ==
  [][/\ CmdReturns("status") /\ fexit' = 1
          => \A p \in Paths : ~HoldsLiveRecord(file'[p])
     /\ CmdReturns("stop") /\ fexit' \in {0, 1} => NoStateFiles'
     /\ fcmd = "start" /\ fpc # "spawn" /\ fpc' = "spawn" => NoStateFiles']_vars

\* daemon d returns an error from write_state in this step
DaemonFails(d) ==
  /\ dpc[d] \in {"w_open", "w_write", "w_rename"}
  /\ dpc'[d] = "done"
  /\ dexit'[d] = "error"

CountEv(log, ev) == Len(SelectSeq(log, LAMBDA e : e.ev = ev))

\* C19: a daemon whose write of the next record fails ends with an error in
\* that step without a notification for the finished phase and without a
\* change of the state file, which holds the well-formed record of the
\* finished phase; a later status, start or stop that reads that record
\* finds the pid dead and removes the file.
C19_FatalBeforeWrite ==
  [][/\ \A d \in Pids :
          DaemonFails(d)
            => /\ dlog'[d] = dlog[d]
               /\ CountEv(dlog[d], "notify") = CountEv(dlog[d], "persist") - 1
               /\ file' = file
               /\ OwnRecordOnDisk(d)'
               /\ ~RecordDiffers(d)'
               /\ WellTimed(Unwrap(from_str(file'["primary"])))
     /\ \A d \in Pids :
          /\ dexit[d] = "error"
          /\ IsSome(fst)
          /\ Unwrap(fst).pid = d
          => /\ fpc = "probe" /\ fpc' # "probe" => fpc' = "clear"
             /\ fpc = "clear" /\ fpc' # "clear" => file'[fpath].kind = "absent"]_vars

\* a daemon has failed in a transition and status, having found its pid
\* dead, is about to remove the record of the finished phase
C19_Witness ==
  \E d \in Pids :
    /\ dexit[d] = "error"
    /\ OwnRecordOnDisk(d)
    /\ fcmd = "status"
    /\ fpc = "clear"
    /\ Unwrap(fst).pid = d

\* the mode and the set of the j-th phase of a run
PhaseMode(j) == IF j % 2 = 1 THEN "Work" ELSE "Break"
PhaseSet(j, cyc) == IF cyc THEN (j + 1) \div 2 ELSE 0

\* the whole log of a run of s sets (s = 1 and cyc false without a cycle):
\* the first record, then for each of the 2s-2 transitions the next record
\* followed by the notification for the finished mode, then the clear
\* followed by the notification for the last Work phase
FullLog(s, cyc) ==
  [i \in 1..(4 * s - 1) |->
     IF i = 4 * s - 2 THEN Cleared
     ELSE IF i = 4 * s - 1 THEN Notified("Work")
     ELSE IF i = 1 \/ i % 2 = 0
     THEN [ev |-> "persist", mode |-> PhaseMode(i \div 2 + 1),
           set |-> PhaseSet(i \div 2 + 1, cyc)]
     ELSE Notified(PhaseMode(i \div 2))]

SetsOf(d) == IF IsSome(dcycle[d]) THEN Unwrap(dcycle[d]).sets ELSE 1

\* the start that spawned daemon d has written d's record
StartedOk(d) == dlog[d] # <<>>

RunAsExpected(d) ==
  /\ IsPrefix(dlog[d], FullLog(SetsOf(d), IsSome(dcycle[d])))
  /\ dexit[d] = "finished"
       => /\ dlog[d] = FullLog(SetsOf(d), IsSome(dcycle[d]))
          /\ CountEv(dlog[d], "persist") = 2 * SetsOf(d) - 1
          /\ CountEv(dlog[d], "notify") = 2 * SetsOf(d) - 1
          /\ file["primary"].kind = "absent"

\* C20: a daemon started by a successful start and left alone eventually
\* terminates, finished unless a write failed; when it has finished the
\* state record is removed and its run was exactly 1 phase without a cycle
\* and 2*sets-1 phases with one, each followed by one notification for the
\* mode that finished, fired after the record change of that transition.
C20_UndisturbedRunTerminates ==
  /\ [](\A d \in Pids : RunAsExpected(d))
  /\ \A d \in Pids : StartedOk(d) ~> dexit[d] \in {"finished", "error"}

\* a run of three sets has finished with its whole log
C20_Witness ==
  \E d \in Pids :
    /\ dexit[d] = "finished"
    /\ SetsOf(d) = 3
    /\ Len(dlog[d]) = 11
    /\ file["primary"].kind = "absent"

\* the start that spawned daemon d has returned successfully and no stop or
\* start has begun since
Fresh(d) ==
  /\ dpc[d] # "unborn"
  /\ d \notin pipeW
  /\ d \notin wfailed
  /\ d \notin intr

\* daemon d is in its loop and has not yet removed its record
InPhase(d) ==
  dpc[d] \in {"wait", "check1", "sleep", "check2", "clear", "w_open", "w_write",
              "w_rename", "notify_loop"}

\* C21: after a successful start and until the next stop or start, the
\* record at the primary path is the one of the new daemon's current phase
\* while that daemon is in its loop, so every ownership check passes, and
\* the daemon does not end as superseded.
C21_FreshTimerNotLost ==
  \A d \in Pids :
    Fresh(d) =>
      /\ InPhase(d) => ~RecordDiffers(d)
      /\ dpc[d] # "heal"
      /\ dexit[d] # "superseded"

\* daemon d has neither written a record nor sent a notification
Quiet(d) ==
  \A i \in 1..Len(dlog[d]) : dlog[d][i].ev \notin {"persist", "notify"}

\* C22: when start_session cannot write the record of the daemon it has just
\* spawned, it signals that daemon, closes the pipe and returns with exit
\* code 2, and no state record exists afterwards; that daemon passes no
\* ownership check, writes no record and sends no notification.
C22_WriteFailure ==
  [][/\ (fpc = "w_fail" /\ fpc' = "exit") =>
          /\ fexit' = 2
          /\ fpipe' = "closed"
          /\ child \notin pipeW'
          /\ DaemonAlive(child) => child \in sigpend'
          /\ NoStateFiles'
     /\ \A d \in wfailed :
          /\ CheckStep(d) => dpc'[d] \in {"done", "heal"}
          /\ Quiet(d)'
    ]_vars

====
